---- MODULE Spec2Model ----
(***************************************************************************)
(* Team builder of the Random Pokemon Generator (src/src/team.ts): the     *)
(* teamState singleton, the high score kept in localStorage, and the four  *)
(* operations generateTeamPokemon, selectStat, startNewTeam, setTeamMode.  *)
(* generateTeamPokemon is asynchronous: it runs up to its first await, and *)
(* each of its two awaits resumes in a later step, so several invocations  *)
(* can be in flight at once and interleave with the synchronous handlers.  *)
(***************************************************************************)
EXTENDS Integers, Sequences, FiniteSets, TLC

\* ------------------------------------------------------------ constants

TEAM_SIZE == 6

DEFAULT_TEAM_MODE == "visible"

STORAGE_HIGH_SCORE_KEY_PREFIX == "highScore_"

TeamMode == {"visible", "hidden"}

\* CoreStatKey: the six keys selectStat is bound to by the stat buttons.
CoreStatKey == {"hp", "attack", "defense", "specialAttack", "specialDefense", "speed"}

\* ------------------------------------------------------------ bounds

\* How many generateTeamPokemon invocations may be suspended at an await.
MaxInFlight == 2

\* ------------------------------------------------------------ values

\* A value that may be null (teamState.currentPokemon, localStorage.getItem)
\* is a sequence: empty for null, else holding the one value.
Null == <<>>

Some(x) == <<x>>

ValueOf(opt) == opt[1]

\* JavaScript's NaN, which parseInt returns for a string with no leading
\* digits: a number apart from every score the model can reach.
NaN == 0 - 999999999

\* The value every stat of the bundle returned from the catch branch has.
DefaultStat == 50

\* fetchPokemonStats, catch branch (the request failed, the response was not
\* OK, or the body could not be read): the default bundle, which has the
\* six stats and no sprite URL.
DefaultStats == [k \in CoreStatKey |-> DefaultStat]

\* The two properties the try branch adds to the six stats.
SpriteKey == {"spriteUrl", "shinySpriteUrl"}

\* fetchPokemonStats, try branch: each stat is statsMap[name] || 0, and the
\* two sprite URLs are those of the answer, or ''.
\* The base stats and the artwork PokeAPI gives for Bulbasaur.
BulbasaurStats ==
    [k \in CoreStatKey \cup SpriteKey |->
        CASE k = "hp" -> 45
          [] k = "attack" -> 49
          [] k = "defense" -> 49
          [] k = "specialAttack" -> 65
          [] k = "specialDefense" -> 65
          [] k = "speed" -> 45
          [] k = "spriteUrl" -> "official-artwork/1.png"
          [] k = "shinySpriteUrl" -> "official-artwork/shiny/1.png"]

\* An answer whose stats list names none of the six stats and that has no
\* sprites: 0 for each stat, '' for each URL.
UnnamedStats ==
    [k \in CoreStatKey \cup SpriteKey |-> IF k \in CoreStatKey THEN 0 ELSE ""]

\* How PokeAPI answers during a session: with the base stats, with a body
\* that names no stat, or not at all.
PokeApiConditions == {"stats", "unnamed", "down"}

\* Mutant of fetchPokemonStats: the catch branch gives 0 for each stat.
fetchPokemonStats_ZeroFallback(api) ==
    CASE api = "stats" -> BulbasaurStats
      [] api = "unnamed" -> UnnamedStats
      [] api = "down" -> [k \in CoreStatKey |-> 0]

\* What an awaited fetchPokemonStats resolves to; it never rejects.
fetchPokemonStats(api) ==
    CASE api = "stats" -> BulbasaurStats
      [] api = "unnamed" -> UnnamedStats
      [] api = "down" -> DefaultStats

\* -------------------------------------------------- strings and numbers

\* A stored string is a sequence of one-character strings.
DigitChars == <<"0", "1", "2", "3", "4", "5", "6", "7", "8", "9">>

IsDigit(c) == \E i \in 1..10 : DigitChars[i] = c

DigitValue(c) == (CHOOSE i \in 1..10 : DigitChars[i] = c) - 1

RECURSIVE NatToString(_)
NatToString(n) ==
    IF n < 10 THEN <<DigitChars[n + 1]>>
    ELSE NatToString(n \div 10) \o <<DigitChars[(n % 10) + 1]>>

\* Number.prototype.toString for the values a score can take.
NumberToString(n) ==
    IF n = NaN THEN <<"N", "a", "N">>
    ELSE IF n < 0 THEN <<"-">> \o NatToString(0 - n)
    ELSE NatToString(n)

RECURSIVE SkipSpaces(_)
SkipSpaces(s) == IF s # <<>> /\ Head(s) = " " THEN SkipSpaces(Tail(s)) ELSE s

RECURSIVE DigitPrefix(_)
DigitPrefix(s) ==
    IF s # <<>> /\ IsDigit(Head(s)) THEN <<Head(s)>> \o DigitPrefix(Tail(s)) ELSE <<>>

RECURSIVE DigitsToNat(_, _)
DigitsToNat(ds, acc) ==
    IF ds = <<>> THEN acc ELSE DigitsToNat(Tail(ds), 10 * acc + DigitValue(Head(ds)))

\* parseInt(string) in radix 10: leading white space skipped, an optional
\* sign, then the longest prefix of digits; NaN when there is no digit.
parseInt(str) ==
    LET t == SkipSpaces(str)
        neg == t # <<>> /\ Head(t) = "-"
        u == IF t # <<>> /\ Head(t) \in {"-", "+"} THEN Tail(t) ELSE t
        ds == DigitPrefix(u)
    IN  IF ds = <<>> THEN NaN
        ELSE IF neg THEN 0 - DigitsToNat(ds, 0) ELSE DigitsToNat(ds, 0)

\* a > b of JavaScript numbers: false when either side is NaN.
Greater(a, b) == a # NaN /\ b # NaN /\ a > b

\* ------------------------------------------------------------ state

VARIABLES
    currentPokemon,   \* teamState.currentPokemon: Null or a Pokemon with stats
    team,             \* teamState.team
    currentScore,     \* teamState.currentScore
    highScore,        \* teamState.highScore
    usedStats,        \* teamState.usedStats
    mode,             \* teamState.mode
    localStorage,     \* localStorage, by key: Null or the stored string
    loading,          \* the flag markLoading sets
    inFlight,         \* suspended generateTeamPokemon invocations, by await
    notice,           \* what the step just taken told the user, if anything
    pokeApi,          \* how PokeAPI answers during this session
    stale,            \* history: the invocations in flight, by await, that
                      \* were called before the team was last started
    highScoreAtStart  \* history: teamState.highScore when the team was started

vars == <<currentPokemon, team, currentScore, highScore, usedStats, mode,
          localStorage, loading, inFlight, notice, pokeApi, stale,
          highScoreAtStart>>

\* The two history variables: no handler reads them.
history == <<stale, highScoreAtStart>>

teamState == <<currentPokemon, team, currentScore, highScore, usedStats, mode>>

\* ------------------------------------------------------------ persistence

getHighScoreKey(m) == STORAGE_HIGH_SCORE_KEY_PREFIX \o m

StorageKeys == {getHighScoreKey(m) : m \in TeamMode}

\* loadHighScore against a given store: stored ? parseInt(stored) : 0
\* (a missing item and the empty string are both falsy).
loadHighScoreFrom(store, m) ==
    LET stored == store[getHighScoreKey(m)]
    IN  IF stored # Null /\ ValueOf(stored) # <<>> THEN parseInt(ValueOf(stored)) ELSE 0

loadHighScore(m) == loadHighScoreFrom(localStorage, m)

\* Mutant of saveHighScore: the key is that of the default mode, not of m.
saveHighScore_DefaultKey(store, m, score) ==
    [store EXCEPT ![getHighScoreKey(DEFAULT_TEAM_MODE)] = Some(NumberToString(score))]

\* saveHighScore: the store after localStorage.setItem(key, score.toString()).
saveHighScore(store, m, score) ==
    [store EXCEPT ![getHighScoreKey(m)] = Some(NumberToString(score))]

\* ------------------------------------------------------------ helpers

\* localStorage when the page loads: empty; the scores of earlier sessions;
\* a string under the default mode's key that saveHighScore never writes.
StoresAtLoad ==
    {[k \in StorageKeys |-> Null],
     [k \in StorageKeys |->
        IF k = getHighScoreKey(DEFAULT_TEAM_MODE)
        THEN Some(<<"4", "0", "0">>) ELSE Some(<<"1", "5", "0">>)],
     [k \in StorageKeys |->
        IF k = getHighScoreKey(DEFAULT_TEAM_MODE) THEN Some(<<"x">>) ELSE Null]}

\* The stat buttons, in the order displayTeamBuilderUI lays them out.
StatButtons ==
    <<"hp", "attack", "defense", "specialAttack", "specialDefense", "speed">>

\* The stats the player asks for.  The player fills the stats in the order
\* of the buttons, and may ask again for any stat already used (selectStat
\* is a global function: a disabled or stale button does not stop the call).
PlayerPicks ==
    usedStats \cup
    {StatButtons[i] : i \in {j \in 1..Len(StatButtons) :
        /\ StatButtons[j] \notin usedStats
        /\ \A h \in 1..(j - 1) : StatButtons[h] \in usedStats}}

InFlightCount == inFlight.eligible + inFlight.stats

\* Mutant of TeamIsFull: the comparison is > instead of >=.
TeamIsFull_Exceeds(t) == Len(t) > TEAM_SIZE

\* teamState.team.length >= TEAM_SIZE (generateTeamPokemon and selectStat).
TeamIsFull(t) == Len(t) >= TEAM_SIZE

\* Mutant of StatAlreadyUsed: the check for a used stat is missing.
StatAlreadyUsed_Never(stat) == FALSE

\* selectStat: teamState.usedStats.has(stat).
StatAlreadyUsed(stat) == stat \in usedStats

\* selectStat: !teamState.currentPokemon || !teamState.currentPokemon.stats.
\* A Pokemon becomes currentPokemon only with its stats attached.
NoPokemonWithStats == currentPokemon = Null

\* selectStat: the Pokemon pushed to the team, stamped with the choice.
SelectedPokemon(pokemon, stat) ==
    [stats |-> pokemon.stats,
     selectedStat |-> stat,
     selectedStatValue |-> pokemon.stats[stat]]

\* Mutant of AddToScore: = instead of +=.
AddToScore_Assign(score, statValue) == statValue

\* selectStat: teamState.currentScore += statValue.
AddToScore(score, statValue) == score + statValue

\* Mutant of BeatsHighScore: the high score is overwritten by every pick.
BeatsHighScore_Always(score, high) == TRUE

\* selectStat: teamState.currentScore > teamState.highScore.
BeatsHighScore(score, high) == Greater(score, high)

\* Mutant of showTeamComplete: the test highScore > 0 is missing.
showTeamComplete_NoPositiveTest(score, high) ==
    IF score = high THEN "newHighScore" ELSE "teamComplete"

\* showTeamComplete: which message the completion alert carries.
showTeamComplete(score, high) ==
    IF score = high /\ Greater(high, 0) THEN "newHighScore" ELSE "teamComplete"

\* ------------------------------------------------------------ Init

Init ==
    /\ localStorage \in StoresAtLoad
    /\ currentPokemon = Null
    /\ team = <<>>
    /\ currentScore = 0
    /\ highScore = loadHighScore(DEFAULT_TEAM_MODE)
    /\ usedStats = {}
    /\ mode = DEFAULT_TEAM_MODE
    /\ loading = FALSE
    /\ inFlight = [eligible |-> 0, stats |-> 0]
    /\ notice = "none"
    /\ pokeApi \in PokeApiConditions
    /\ stale = [eligible |-> 0, stats |-> 0]
    /\ highScoreAtStart = highScore

\* ------------------------------------------------------------ generation

\* How the call of getOptionsFromForm (random.ts, outside team.ts) ends: it
\* returns the options read from the form, or it throws.
getOptionsFromForm == {"options", "threw"}

\* generateTeamPokemon up to its first await, as part of the handler that
\* calls it: the team-full alert, or markLoading(true), getOptionsFromForm
\* and the suspension at await getEligiblePokemon(options).  The options
\* are read before the try block: a throw there ends the invocation (its
\* promise is rejected, and no caller awaits it) with the flag still set.
generateTeamPokemonStart(t) ==
    IF TeamIsFull(t)
    THEN /\ notice' = "teamFull"
         /\ UNCHANGED <<loading, inFlight>>
    ELSE /\ notice' = "none"
         /\ loading' = TRUE
         /\ \E options \in getOptionsFromForm :
              IF options = "threw"
              THEN UNCHANGED inFlight
              ELSE /\ InFlightCount < MaxInFlight
                   /\ inFlight' = [inFlight EXCEPT !.eligible = @ + 1]

\* A call of generateTeamPokemon (the Generate button, or initializeTeamBuilder).
generateTeamPokemon ==
    /\ generateTeamPokemonStart(team)
    /\ UNCHANGED <<teamState, localStorage, pokeApi, history>>

\* An invocation resumes from await getEligiblePokemon and runs chooseRandom.
\* A throw or an empty result: displayPokemon(null), markLoading(false), done.
\* A Pokemon: the invocation suspends again at await fetchPokemonStats.
\* The invocation that resumes is any of those suspended at that await.
eligibleResolved ==
    /\ inFlight.eligible > 0
    /\ \E wasStale \in BOOLEAN :
         /\ IF wasStale THEN stale.eligible > 0
                         ELSE inFlight.eligible > stale.eligible
         /\ \/ /\ notice' = "noPokemon"
               /\ loading' = FALSE
               /\ inFlight' = [inFlight EXCEPT !.eligible = @ - 1]
               /\ stale' = IF wasStale THEN [stale EXCEPT !.eligible = @ - 1]
                                       ELSE stale
            \/ /\ notice' = "none"
               /\ inFlight' = [eligible |-> inFlight.eligible - 1,
                               stats |-> inFlight.stats + 1]
               /\ stale' = IF wasStale THEN [eligible |-> stale.eligible - 1,
                                             stats |-> stale.stats + 1]
                                       ELSE stale
               /\ UNCHANGED loading
    /\ UNCHANGED <<teamState, localStorage, pokeApi, highScoreAtStart>>

\* An invocation resumes from await fetchPokemonStats: the stats are attached,
\* the Pokemon becomes currentPokemon, markLoading(false).
statsResolved ==
    /\ inFlight.stats > 0
    /\ \E wasStale \in BOOLEAN :
         /\ IF wasStale THEN stale.stats > 0 ELSE inFlight.stats > stale.stats
         /\ stale' = IF wasStale THEN [stale EXCEPT !.stats = @ - 1] ELSE stale
    /\ currentPokemon' = Some([stats |-> fetchPokemonStats(pokeApi)])
    /\ notice' = "none"
    /\ loading' = FALSE
    /\ inFlight' = [inFlight EXCEPT !.stats = @ - 1]
    /\ UNCHANGED <<team, currentScore, highScore, usedStats, mode, localStorage,
                   pokeApi, highScoreAtStart>>

\* ------------------------------------------------------------ selectStat

selectStat(stat) ==
    IF NoPokemonWithStats
    THEN /\ notice' = "none"
         /\ UNCHANGED <<teamState, localStorage, loading, inFlight, pokeApi, history>>
    ELSE IF StatAlreadyUsed(stat)
    THEN /\ notice' = "alreadySelected"
         /\ UNCHANGED <<teamState, localStorage, loading, inFlight, pokeApi, history>>
    ELSE LET pokemon == ValueOf(currentPokemon)
             statValue == pokemon.stats[stat]
             score == AddToScore(currentScore, statValue)
             newTeam == Append(team, SelectedPokemon(pokemon, stat))
         IN  /\ usedStats' = usedStats \cup {stat}
             /\ currentScore' = score
             /\ team' = newTeam
             /\ IF BeatsHighScore(score, highScore)
                THEN /\ highScore' = score
                     /\ localStorage' = saveHighScore(localStorage, mode, score)
                ELSE UNCHANGED <<highScore, localStorage>>
             /\ currentPokemon' = Null
             /\ IF TeamIsFull(newTeam)
                THEN /\ notice' = showTeamComplete(score, highScore')
                     /\ UNCHANGED <<loading, inFlight>>
                ELSE generateTeamPokemonStart(newTeam)
             /\ UNCHANGED <<mode, pokeApi, history>>

\* ------------------------------------------------------------ new team

\* Mutant of startNewTeamIn: usedStats.clear() is missing.
startNewTeamIn_KeepsUsedStats(m, resetHighScore) ==
    /\ team' = <<>>
    /\ currentScore' = 0
    /\ currentPokemon' = Null
    /\ usedStats' = usedStats
    /\ IF resetHighScore
       THEN /\ highScore' = 0
            /\ localStorage' = saveHighScore(localStorage, m, 0)
       ELSE UNCHANGED <<highScore, localStorage>>
    /\ notice' = "none"
    /\ stale' = inFlight
    /\ highScoreAtStart' = highScore'

\* The body of startNewTeam, run with teamState.mode = m.
startNewTeamIn(m, resetHighScore) ==
    /\ team' = <<>>
    /\ currentScore' = 0
    /\ currentPokemon' = Null
    /\ usedStats' = {}
    /\ IF resetHighScore
       THEN /\ highScore' = 0
            /\ localStorage' = saveHighScore(localStorage, m, 0)
       ELSE UNCHANGED <<highScore, localStorage>>
    /\ notice' = "none"
    /\ stale' = inFlight
    /\ highScoreAtStart' = highScore'

\* Mutant of startNewTeam: the high score is reset whatever the argument.
startNewTeam_AlwaysResets(resetHighScore) ==
    /\ startNewTeamIn(mode, TRUE)
    /\ UNCHANGED <<mode, loading, inFlight, pokeApi>>

startNewTeam(resetHighScore) ==
    /\ startNewTeamIn(mode, resetHighScore)
    /\ UNCHANGED <<mode, loading, inFlight, pokeApi>>

\* Mutant of setTeamMode: the team is restarted without resetHighScore.
setTeamMode_KeepsHighScore(m) ==
    IF mode = m
    THEN /\ notice' = "none"
         /\ UNCHANGED <<teamState, localStorage, loading, inFlight, pokeApi, history>>
    ELSE /\ mode' = m
         /\ startNewTeamIn(m, FALSE)
         /\ UNCHANGED <<loading, inFlight, pokeApi>>

\* Mutant of setTeamMode: the test for the current mode is missing.
setTeamMode_NoSameModeTest(m) ==
    /\ mode' = m
    /\ startNewTeamIn(m, TRUE)
    /\ UNCHANGED <<loading, inFlight, pokeApi>>

setTeamMode(m) ==
    IF mode = m
    THEN /\ notice' = "none"
         /\ UNCHANGED <<teamState, localStorage, loading, inFlight, pokeApi, history>>
    ELSE /\ mode' = m
         /\ startNewTeamIn(m, TRUE)
         /\ UNCHANGED <<loading, inFlight, pokeApi>>

\* ------------------------------------------------------------ Spec

Next ==
    \/ generateTeamPokemon
    \/ eligibleResolved
    \/ statsResolved
    \/ \E stat \in PlayerPicks : selectStat(stat)
    \/ \E resetHighScore \in BOOLEAN : startNewTeam(resetHighScore)
    \/ \E m \in TeamMode : setTeamMode(m)

Spec == Init /\ [][Next]_vars

\* ------------------------------------------------------------ claims

\* What a handler that changes nothing leaves alone: the session, the
\* stored high scores, the loading flag and the invocations in flight.
session == <<teamState, localStorage, loading, inFlight>>

\* a >= b of JavaScript numbers: false when either side is NaN.
GreaterOrEqual(a, b) == a # NaN /\ b # NaN /\ a >= b

RECURSIVE SumOfSelected(_)
SumOfSelected(t) ==
    IF t = <<>> THEN 0 ELSE t[1].selectedStatValue + SumOfSelected(Tail(t))

SelectedStats(t) == {t[i].selectedStat : i \in 1..Len(t)}

\* A step that starts a new team: startNewTeam, or setTeamMode to another mode.
NewTeamStep ==
    \/ \E resetHighScore \in BOOLEAN : startNewTeam(resetHighScore)
    \/ \E m \in TeamMode : m # mode /\ setTeamMode(m)

\* A step that resets the high score: startNewTeam(true), or setTeamMode to
\* another mode.
ResetStep ==
    \/ startNewTeam(TRUE)
    \/ \E m \in TeamMode : m # mode /\ setTeamMode(m)

\* C1: in every reachable state no stat is the selectedStat of two different
\* members of the team.
C1_StatsUnique ==
    \A i, j \in 1..Len(team) :
        i # j => team[i].selectedStat # team[j].selectedStat

\* C1 witness: a team of several members while two generations overlap.
C1_Witness == Len(team) >= 2 /\ InFlightCount >= 2

\* C2: a selectStat(stat) step taken with no current Pokemon, or with stat
\* already used, changes nothing of the session, the stored high scores or
\* the loading flag, and starts no generation.
C2_RejectedSelectChangesNothing ==
    [][\A stat \in CoreStatKey :
          ((currentPokemon = Null \/ stat \in usedStats) /\ selectStat(stat))
              => UNCHANGED session]_vars

\* C2 witness: a pick of a used stat has just been rejected.
C2_Witness == notice = "alreadySelected" /\ currentPokemon # Null

\* C3: in every reachable state currentScore is the sum of the
\* selectedStatValue of the members of the team (0 for an empty team).
C3_ScoreIsSum == currentScore = SumOfSelected(team)

\* C3 witness: three picks of 45, 49 and 49 have been added up.
C3_Witness == Len(team) = 3 /\ currentScore = 143

\* C4: in every reachable state the team has as many members as usedStats
\* has stats, and usedStats is the set of the members' selectedStat.
C4_UsedStatsMirrorTeam ==
    /\ Len(team) = Cardinality(usedStats)
    /\ usedStats = SelectedStats(team)

\* C4 witness: a second team is under way after the first was cleared.
C4_Witness == Len(team) = 1 /\ currentScore = 45 /\ highScore = 94

\* C5: the team never has more than TEAM_SIZE members.
C5_TeamWithinSize == Len(team) <= TEAM_SIZE

\* C5 witness: the team is full, a generation started earlier has delivered
\* its Pokemon afterwards, and a pick for it has been rejected.
C5_Witness ==
    Len(team) = TEAM_SIZE /\ currentPokemon # Null /\ notice = "alreadySelected"

\* C6: with a full team, a generateTeamPokemon step gives the team-full
\* notice and changes nothing (no invocation is started, the loading flag
\* stays), and every step that does not start a new team leaves the team full.
C6_FullTeamStaysFull ==
    [][Len(team) = TEAM_SIZE =>
          /\ generateTeamPokemon => (notice' = "teamFull" /\ UNCHANGED session)
          /\ ~NewTeamStep => Len(team') = TEAM_SIZE]_vars

\* C6 witness: generateTeamPokemon has just been refused for a full team.
C6_Witness == Len(team) = TEAM_SIZE /\ notice = "teamFull"

\* C7: whenever the team is full, currentPokemon is null.
C7_NoPokemonOnceFull == Len(team) = TEAM_SIZE => currentPokemon = Null

\* C8: in every reachable state highScore is what loadHighScore gives for
\* the active mode (NaN for NaN).
C8_HighScoreIsStored == highScore = loadHighScore(mode)

\* C8 witness: a high score reached in hidden mode, after a switch of mode.
C8_Witness == mode = "hidden" /\ highScore = 94

\* C9: after every selectStat step, highScore >= currentScore.
C9_HighScoreCoversScore ==
    [][(\E stat \in CoreStatKey : selectStat(stat))
          => GreaterOrEqual(highScore', currentScore')]_vars

\* C10: no step other than a reset (startNewTeam(true), setTeamMode to
\* another mode) lowers highScore or the score stored for either mode.
C10_HighScoreNeverLowered ==
    [][~ResetStep =>
          /\ ~Greater(highScore, highScore')
          /\ \A m \in TeamMode :
                localStorage'[getHighScoreKey(m)] # localStorage[getHighScoreKey(m)] =>
                    ~Greater(loadHighScoreFrom(localStorage, m),
                             loadHighScoreFrom(localStorage', m))]_vars

\* C10 witness: a pick in a later team, below the high score of an earlier one.
C10_Witness == Len(team) = 2 /\ currentScore = 94 /\ highScore = 318

\* C11: a setTeamMode(m) step with m not the current mode ends with mode m,
\* an empty team, score 0, no used stat, no current Pokemon, highScore 0 and
\* "0" stored under m's key, whatever was in memory or stored before.
C11_SwitchResetsAll ==
    [][\A m \in TeamMode :
          (m # mode /\ setTeamMode(m)) =>
              /\ mode' = m
              /\ team' = <<>>
              /\ currentScore' = 0
              /\ usedStats' = {}
              /\ currentPokemon' = Null
              /\ highScore' = 0
              /\ localStorage'[getHighScoreKey(m)] = Some(<<"0">>)
              /\ loadHighScoreFrom(localStorage', m) = 0]_vars

\* C11 witness: hidden mode entered with 150 stored for it and a high score
\* in memory that parseInt read from the 400 stored for visible mode.
C11_Witness ==
    /\ mode = "hidden"
    /\ team = <<>>
    /\ highScore = 0
    /\ localStorage[getHighScoreKey("hidden")] = Some(<<"0">>)
    /\ localStorage[getHighScoreKey("visible")] = Some(<<"4", "0", "0">>)

\* C12: a setTeamMode(m) step with m the current mode changes nothing of the
\* session, the stored high scores, the loading flag or the invocations in
\* flight.
C12_SameModeChangesNothing ==
    [][\A m \in TeamMode : (m = mode /\ setTeamMode(m)) => UNCHANGED session]_vars

\* C12 witness: a team in progress and a high score in hidden mode, as
\* setTeamMode("hidden") leaves them (the step from this state leads back
\* to it).
C12_Witness ==
    /\ mode = "hidden"
    /\ Len(team) = 2
    /\ highScore = 94
    /\ currentPokemon # Null
    /\ notice = "none"

\* C13: no step changes what is stored for a mode other than the mode that
\* is active when the step ends (the mode saveHighScore is called with).
C13_OtherModeNotWritten ==
    [][\A m \in TeamMode :
          m # mode' =>
              localStorage'[getHighScoreKey(m)] = localStorage[getHighScoreKey(m)]]_vars

\* C13 witness: 45 written in hidden mode beside the 318 of visible mode.
C13_Witness ==
    /\ mode = "hidden"
    /\ localStorage[getHighScoreKey("hidden")] = Some(<<"4", "5">>)
    /\ localStorage[getHighScoreKey("visible")] = Some(<<"3", "1", "8">>)

\* C14: a startNewTeam(false) step empties the team, zeroes the score,
\* clears the current Pokemon and the used stats, and leaves the mode, the
\* high score, the stored high scores, the loading flag and the invocations
\* in flight alone; taken from a state it has already cleared, it changes
\* nothing.
C14_NewTeamClearsOnly ==
    [][startNewTeam(FALSE) =>
          /\ team' = <<>>
          /\ currentScore' = 0
          /\ currentPokemon' = Null
          /\ usedStats' = {}
          /\ UNCHANGED <<mode, highScore, localStorage, loading, inFlight>>
          /\ (team = <<>> /\ currentScore = 0 /\ currentPokemon = Null
                /\ usedStats = {}) => UNCHANGED session]_vars

\* C14 witness: the team that reached 318 has been cleared, the high score
\* is kept and nothing is in flight.
C14_Witness ==
    /\ team = <<>>
    /\ currentScore = 0
    /\ highScore = 318
    /\ mode = "visible"
    /\ InFlightCount = 0
    /\ loading = FALSE

\* The two notices of showTeamComplete.
CompletionNotices == {"newHighScore", "teamComplete"}

\* C15: every invocation of generateTeamPokemon that set the loading flag
\* clears it on the way out, however it ends: when no invocation is in
\* flight, the flag is false.
C15_IdleMeansNotLoading == InFlightCount = 0 => loading = FALSE

\* C16: a step in which an invocation ends with no Pokemon (a throw or an
\* empty result) leaves currentPokemon null and the team, the score, the
\* used stats and the high score unchanged.
C16_NoPokemonClearsCurrent ==
    [][(eligibleResolved /\ notice' = "noPokemon") =>
          /\ currentPokemon' = Null
          /\ UNCHANGED <<team, currentScore, usedStats, highScore>>]_vars

\* C17: a selectStat step that adds to the team is taken only when no
\* invocation of generateTeamPokemon is in flight.
C17_NoCommitWhileInFlight ==
    [][\A stat \in CoreStatKey :
          (selectStat(stat) /\ team' # team) => InFlightCount = 0]_vars

\* C18: a selectStat step that adds to the team clears currentPokemon; if
\* the team is then full it gives a completion notice and starts no
\* generation, otherwise it gives none and calls generateTeamPokemon once
\* (the loading flag is set, at most one more invocation is in flight).
\* A completion notice is given only by the step that adds the sixth member.
C18_CompleteOrGenerate ==
    [][/\ \A stat \in CoreStatKey :
            (selectStat(stat) /\ team' # team) =>
                /\ currentPokemon' = Null
                /\ IF Len(team') >= TEAM_SIZE
                   THEN /\ notice' \in CompletionNotices
                        /\ UNCHANGED <<loading, inFlight>>
                   ELSE /\ notice' \notin CompletionNotices
                        /\ loading' = TRUE
                        /\ \/ inFlight' = inFlight
                           \/ inFlight' = [inFlight EXCEPT !.eligible = @ + 1]
       /\ notice' \in CompletionNotices =>
            (Len(team) = TEAM_SIZE - 1 /\ Len(team') = TEAM_SIZE)]_vars

\* C18 witness: the plain completion notice, just given for a sixth member.
C18_Witness == notice = "teamComplete" /\ Len(team) = TEAM_SIZE

\* C19: the completion notice is the new-record one exactly when, after the
\* step, currentScore equals highScore and highScore is greater than 0.
C19_NewRecordMessage ==
    [][notice' \in CompletionNotices =>
          notice' = IF currentScore' = highScore' /\ Greater(highScore', 0)
                    THEN "newHighScore" ELSE "teamComplete"]_vars

\* C19 witness: the new-record notice for a team that scored 318.
C19_Witness == notice = "newHighScore" /\ currentScore = 318

\* C20: while PokeAPI is down, the current Pokemon and every member of the
\* team carry the default bundle (50 for each of the six stats, no sprite
\* URL), every member was committed with 50, and the score is 50 a member.
C20_FallbackStats ==
    pokeApi = "down" =>
        /\ currentPokemon # Null =>
              /\ DOMAIN ValueOf(currentPokemon).stats = CoreStatKey
              /\ \A k \in CoreStatKey : ValueOf(currentPokemon).stats[k] = 50
        /\ \A i \in 1..Len(team) :
              /\ DOMAIN team[i].stats = CoreStatKey
              /\ team[i].selectedStatValue = 50
        /\ currentScore = 50 * Len(team)

\* C20 witness: a full team of fallback Pokemon, scoring 300.
C20_Witness == pokeApi = "down" /\ Len(team) = TEAM_SIZE /\ currentScore = 300

\* A string that is the decimal writing of an integer a score can be.
IsIntegerString(str) == str # <<>> /\ \A i \in 1..Len(str) : IsDigit(str[i])

\* C21: for each mode loadHighScore gives the stored integer when the string
\* stored under the mode's key is one, and 0 when nothing is stored or the
\* string is not an integer; highScore is an integer in every state.
C21_UnparsableLoadsZero ==
    /\ \A m \in TeamMode :
          LET stored == localStorage[getHighScoreKey(m)]
          IN  loadHighScore(m) =
                  IF stored # Null /\ IsIntegerString(ValueOf(stored))
                  THEN DigitsToNat(ValueOf(stored), 0) ELSE 0
    /\ highScore # NaN

\* C22: an invocation that resumes with its Pokemon and stats does so only
\* when no Pokemon is waiting for a stat: a current Pokemon that is not null
\* is never replaced by the result of another invocation.
C22_DeliveredNotOverwritten ==
    [][statsResolved => currentPokemon = Null]_vars

\* C23: an invocation that was in flight when the team was last started
\* (startNewTeam, or setTeamMode to another mode) does not make its Pokemon
\* the current one: when it resumes from its stats, currentPokemon stays as
\* it was.
C23_StaleNotInstalled ==
    [][(statsResolved /\ stale' # stale) => currentPokemon' = currentPokemon]_vars

\* C24: the loading flag is true in every state in which an invocation of
\* generateTeamPokemon is suspended at either await.
C24_InFlightMeansLoading == InFlightCount > 0 => loading = TRUE

\* C25: the new-record notice is given only for a final score greater than
\* the high score the team was started with.
C25_NewRecordBeatsStart ==
    [][notice' = "newHighScore" => Greater(currentScore', highScoreAtStart)]_vars

====
